---- MODULE Spec2Model ----
(***************************************************************************)
(* Serrante/Lottery: the draw stores (Excel file, MongoDB collections),    *)
(* the merge of a feed response into them, the candidate pool and the      *)
(* generation of the final combinations.                                   *)
(*                                                                         *)
(* Python values are modelled structurally.  A token is one element of a   *)
(* "dezenas" field: a Python int, or a Python str holding a decimal        *)
(* ("7"), a zero padded decimal ("07", what the feed sends) or text that   *)
(* int() rejects.  A field value is a record [kind, items]:                *)
(*   "list"       a Python list of tokens                                  *)
(*   "str"        a Python str, given by its ", "-separated pieces         *)
(*   "tuple"      a Python tuple of ints                                   *)
(*   "tuple_repr" the str "(1, 2, 3)", given by the tuple's items          *)
(*   "int"        a Python int (a cell holding one number)                 *)
(*   "none"       None                                                     *)
(***************************************************************************)
EXTENDS Integers, Sequences, FiniteSets, TLC

VARIABLES
    storage,                      \* args.storage of the deployment
    excel_file,                   \* the Excel file: [exists, rows]
    collection_lotofacil_results, \* the MongoDB results collection
    lottery_data,                 \* response.json() of the current run
    df_create,                    \* tabular run: the frame loaded
    df_update,                    \* the collection the merge returned
    outcome,                      \* how handle_successful_request ended
    fault,                        \* the store failures that occurred in the run
    rerun,                        \* the run repeats the previous run's batch
    first,                        \* store and result of the previous run
    store_before,                 \* the store's content when the run began
    collection_predictions,       \* the MongoDB predictions collection
    prediction_call,              \* the last save_predictions_to_mongodb call
    clock,                        \* datetime.now(), in calls
    fixed_numbers,                \* generate_final_combinations: its argument
    combinations_set,             \* its set of accepted combinations
    random_number,                \* its last draw
    pc_gen,                       \* its position
    probabilities,                \* generate_random_numbers: mean score per class
    sorted_probabilities,         \* its ranking, shifted and clipped
    unique_numbers,               \* its pool
    pc_pool,                      \* its position
    occurrences,                  \* count_and_print_occurrences: its frame
    predictions,                  \* handle_predictions and print_final_combinations: their frame
    request,                      \* handle_command_line_arguments up to the load: its frame
    runs,                         \* two runs of handle_successful_request at once
    training                      \* generate_numbers_mlp: its frame

\* count_and_print_occurrences
occ_df == occurrences.df                        \* its argument
all_numbers == occurrences.all_numbers          \* its flattened numbers
number_counts == occurrences.number_counts      \* its value_counts(), by falling count
total_occurrences == occurrences.total_occurrences
occ_report == occurrences.report                \* the lines it printed
pc_occ == occurrences.pc                        \* its position

\* handle_predictions and print_final_combinations
pred_df == predictions.df                       \* the argument
df_dezenas == predictions.df_dezenas            \* the draws as arrays
final_combination_list == predictions.final_combinations
flag_calls == predictions.calls                 \* the calls made to save
pc_flag == predictions.pc                       \* the position

\* handle_command_line_arguments and handle_api_request
get_result == request.get_result                \* what requests.get did
api_result == request.api_result                \* how handle_api_request ended
store_at_start == request.store_at_start        \* the store when the process started
main_df == request.df                           \* the df loaded
pc_main == request.pc                           \* the position

\* two runs at once: per run its response, the frame it loaded, the collection
\* it merged and its position; the loads and saves in the order they happened
run_lottery_data == runs.lottery_data
run_df_create == runs.df_create
run_df_update == runs.df_update
run_pc == runs.pc
run_log == runs.log

\* generate_numbers_mlp
fit_result == training.fit_result               \* how model.fit ended
mlp_result == training.mlp_result               \* how generate_numbers_mlp ended
pc_fit == training.pc                           \* the position

store_vars == <<storage, excel_file, collection_lotofacil_results, lottery_data,
                df_create, df_update, outcome, fault, rerun, first,
                store_before>>
pred_vars == <<collection_predictions, prediction_call, clock>>
gen_vars == <<fixed_numbers, combinations_set, random_number, pc_gen>>
pool_vars == <<probabilities, sorted_probabilities, unique_numbers, pc_pool>>
ext_vars == <<occurrences, predictions, request, runs, training>>
vars == <<store_vars, pred_vars, gen_vars, pool_vars, ext_vars>>

-----------------------------------------------------------------------------
(* Bounds of the model *)

MaxBatch == 2
MaxFailAt == 3
MaxCalls == 3
MaxClasses == 27
MaxPad == 2

-----------------------------------------------------------------------------
(* Python values *)

PyInt(n) == [py |-> "int", v |-> n, text |-> "dec"]
PyStrDec(n) == [py |-> "str", v |-> n, text |-> "dec"]
PyStrPad(n) == [py |-> "str", v |-> n, text |-> "pad"]
PyStrBad == [py |-> "str", v |-> 0, text |-> "nan"]

Value(kind, items) == [kind |-> kind, items |-> items]
NoneValue == Value("none", <<>>)

Map(f(_), s) == [i \in 1..Len(s) |-> f(s[i])]

SeqRange(s) == {s[i] : i \in 1..Len(s)}

\* int(x): defined on ints and on decimal text
can_int(tok) == tok.text # "nan"
int_of(tok) == tok.v

\* str(n)
str_of(n) == PyStrDec(n)

RECURSIVE digits(_)
digits(n) == IF n < 10 THEN <<PyStrDec(n)>> ELSE digits(n \div 10) \o <<PyStrDec(n % 10)>>

piece_chars(tok) ==
    IF tok.text = "nan" THEN <<PyStrBad>>
    ELSE IF tok.text = "pad" THEN <<PyStrDec(0)>> \o digits(tok.v)
    ELSE digits(tok.v)

\* the characters of a str, one token each; "," and " " are no decimals
RECURSIVE str_chars(_)
str_chars(pieces) ==
    IF Len(pieces) = 0 THEN <<>>
    ELSE IF Len(pieces) = 1 THEN piece_chars(pieces[1])
    ELSE piece_chars(pieces[1]) \o <<PyStrBad, PyStrBad>> \o str_chars(Tail(pieces))

\* "for x in dezenas"
iterate(dezenas) ==
    CASE dezenas.kind \in {"list", "tuple"} -> [raised |-> "none", items |-> dezenas.items]
      [] dezenas.kind = "str" -> [raised |-> "none", items |-> str_chars(dezenas.items)]
      [] OTHER -> [raised |-> "TypeError", items |-> <<>>]

\* ast.literal_eval on the text of a cell
literal_eval(x) ==
    CASE x.kind = "tuple_repr" -> [raised |-> "none", value |-> Value("tuple", x.items)]
      [] x.kind = "str" /\ Len(x.items) >= 1 /\ \A i \in 1..Len(x.items) : x.items[i].text = "dec" ->
            [raised |-> "none",
             value |-> IF Len(x.items) = 1
                       THEN Value("int", <<PyInt(x.items[1].v)>>)
                       ELSE Value("tuple", Map(LAMBDA t : PyInt(t.v), x.items))]
      [] OTHER -> [raised |-> "SyntaxError", value |-> NoneValue]

is_str(x) == x.kind \in {"str", "tuple_repr"}

-----------------------------------------------------------------------------
(* The feed: the payloads a response can hold *)

IntList(s) == Value("list", Map(PyInt, s))
PadList(s) == Value("list", Map(PyStrPad, s))

Payload(concurso, data, dezenas) == [concurso |-> concurso, data |-> data, dezenas |-> dezenas]

Payloads ==
    { Payload(2500, "2024-01-07", IntList(<<1, 2, 3, 4, 5, 6, 7, 8, 9, 10, 11, 12, 13, 14, 15>>)),
      Payload(2500, "2024-01-07", IntList(<<1, 2, 3, 4, 5, 6, 7, 8, 9, 10, 11, 12, 13, 14, 16>>)),
      Payload(1, "29/09/2003", PadList(<<2, 3, 5>>)),
      Payload(1, "30/09/2003", PadList(<<2, 3, 6>>)),
      Payload(2, "06/10/2003", Value("str", <<PyStrDec(1), PyStrDec(4), PyStrDec(23)>>)),
      Payload(2, "06/10/2003", Value("list", <<PyStrPad(1), PyStrBad, PyStrPad(23)>>)),
      Payload(2, "06/10/2003", NoneValue) }

RECURSIVE SeqsUpTo(_, _)
SeqsUpTo(S, n) ==
    IF n = 0 THEN {<<>>}
    ELSE LET shorter == SeqsUpTo(S, n - 1)
         IN shorter \cup {Append(s, x) : s \in {t \in shorter : Len(t) = n - 1}, x \in S}

Batches == SeqsUpTo(Payloads, MaxBatch)

-----------------------------------------------------------------------------
(* data_frame_operations.py: the tabular backend.  A DataFrame is the      *)
(* sequence of its rows [concurso, data, dezenas].                         *)

Row(concurso, data, dezenas) == [concurso |-> concurso, data |-> data, dezenas |-> dezenas]

create_new_dataframe == <<>>

\* df[column].apply(lambda x: ast.literal_eval(x) if isinstance(x, str) else x)
convert_string_to_list(df) ==
    LET cell(i) == IF is_str(df[i].dezenas)
                   THEN literal_eval(df[i].dezenas)
                   ELSE [raised |-> "none", value |-> df[i].dezenas]
    IN IF \E i \in 1..Len(df) : cell(i).raised # "none"
       THEN [raised |-> "SyntaxError", df |-> df]
       ELSE [raised |-> "none",
             df |-> [i \in 1..Len(df) |-> [df[i] EXCEPT !.dezenas = cell(i).value]]]

\* read_fault: what pd.read_excel does when the file is there
ReadFaults == {"none", "EmptyDataError", "OSError"}

read_or_create_dataframe(file, read_fault) ==
    IF ~file.exists
    THEN [raised |-> "none", failed |-> "none", df |-> create_new_dataframe]
    ELSE IF read_fault = "EmptyDataError"
    THEN [raised |-> "none", failed |-> read_fault, df |-> create_new_dataframe]
    ELSE IF read_fault # "none"
    THEN [raised |-> read_fault, failed |-> read_fault, df |-> create_new_dataframe]
    ELSE LET c == convert_string_to_list(file.rows)
         IN [raised |-> c.raised, failed |-> "none", df |-> c.df]

\* ", ".join(map(str, [int(x) for x in dezenas]))
dezenas_str(dezenas) ==
    LET it == iterate(dezenas)
    IN IF it.raised # "none" THEN [raised |-> it.raised, value |-> NoneValue]
       ELSE IF \E i \in 1..Len(it.items) : ~can_int(it.items[i])
       THEN [raised |-> "ValueError", value |-> NoneValue]
       ELSE [raised |-> "none",
             value |-> Value("str", Map(LAMBDA t : str_of(int_of(t)), it.items))]

\* a merge that appends whatever the frame holds
update_row_append(df, concurso, data, text) ==
    Append(df, Row(concurso, data, text))

\* the body of the loop of update_dataframe once dezenas_str is known
update_row(df, concurso, data, text) ==
    IF \E i \in 1..Len(df) : df[i].concurso = concurso
    THEN [i \in 1..Len(df) |->
            IF df[i].concurso = concurso
            THEN [df[i] EXCEPT !.data = data, !.dezenas = text]
            ELSE df[i]]
    ELSE Append(df, Row(concurso, data, text))

RECURSIVE update_dataframe_from(_, _, _)
update_dataframe_from(df, batch, i) ==
    IF i > Len(batch) THEN [raised |-> "none", df |-> df]
    ELSE LET result == batch[i]
             text == dezenas_str(result.dezenas)
         IN IF text.raised # "none" THEN [raised |-> text.raised, df |-> df]
            ELSE update_dataframe_from(
                     update_row(df, result.concurso, result.data, text.value), batch, i + 1)

update_dataframe(df, batch) == update_dataframe_from(df, batch, 1)

\* df.sort_values(by="concurso", ascending=False)
RECURSIVE sort_values(_)
sort_values(df) ==
    IF Len(df) <= 1 THEN df
    ELSE LET rest == sort_values(Tail(df))
             before == SelectSeq(rest, LAMBDA r : r.concurso > df[1].concurso)
             after == SelectSeq(rest, LAMBDA r : r.concurso <= df[1].concurso)
         IN before \o <<df[1]>> \o after

\* what to_excel writes for a cell: text as it is, a number as it is, str() of the rest
excel_cell(x) ==
    IF x.kind = "tuple" THEN Value("tuple_repr", x.items) ELSE x

WriteFaults == {"none", "OSError"}

\* a save that reads the file again and keeps the rows the frame lacks
save_dataframe_keeping(df, file, write_fault) ==
    LET kept == SelectSeq(file.rows,
                          LAMBDA r : \A i \in 1..Len(df) : df[i].concurso # r.concurso)
        sorted == sort_values(df \o kept)
    IN IF write_fault # "none"
       THEN [raised |-> write_fault, file |-> file]
       ELSE [raised |-> "none",
             file |-> [exists |-> TRUE,
                       rows |-> [i \in 1..Len(sorted) |->
                                   [sorted[i] EXCEPT !.dezenas = excel_cell(sorted[i].dezenas)]]]]

save_dataframe(df, file, write_fault) ==
    LET sorted == sort_values(df)
    IN IF write_fault # "none"
       THEN [raised |-> write_fault, file |-> file]
       ELSE [raised |-> "none",
             file |-> [exists |-> TRUE,
                       rows |-> [i \in 1..Len(sorted) |->
                                   [sorted[i] EXCEPT !.dezenas = excel_cell(sorted[i].dezenas)]]]]

-----------------------------------------------------------------------------
(* data_frame_operations_mongodb.py: the document backend.  A collection   *)
(* is the sequence of its documents in insertion order.                    *)

read_or_create_data_from_mongodb(collection, dataframe, find_fault) ==
    IF dataframe
    THEN IF find_fault THEN <<>> ELSE collection
    ELSE <<>>

\* a lookup that never matches
find_one_missing(collection, concurso) == FALSE

find_one(collection, concurso) ==
    \E i \in 1..Len(collection) : collection[i].concurso = concurso

\* fail_at = n: the n-th request to the server raises PyMongoError (0: none does)
RECURSIVE update_data_from(_, _, _, _, _)
update_data_from(collection, documents, i, requests, fail_at) ==
    IF i > Len(documents) THEN [failed |-> "none", collection |-> collection]
    ELSE IF fail_at = requests + 1
    THEN [failed |-> "PyMongoError", collection |-> collection]
    ELSE IF find_one(collection, documents[i].concurso)
    THEN update_data_from(collection, documents, i + 1, requests + 1, fail_at)
    ELSE IF fail_at = requests + 2
    THEN [failed |-> "PyMongoError", collection |-> collection]
    ELSE update_data_from(Append(collection, documents[i]), documents, i + 1,
                          requests + 2, fail_at)

update_data_to_mongodb(collection, documents, fail_at) ==
    update_data_from(collection, documents, 1, 0, fail_at)

mongodb_convert_string_to_list(dezenas) ==
    IF dezenas.kind = "str"
    THEN IF \E i \in 1..Len(dezenas.items) : ~can_int(dezenas.items[i])
         THEN [raised |-> "ValueError", value |-> NoneValue]
         ELSE [raised |-> "none",
               value |-> Value("list", Map(LAMBDA t : PyInt(int_of(t)), dezenas.items))]
    ELSE IF dezenas.kind = "list"
    THEN [raised |-> "none", value |-> dezenas]
    ELSE [raised |-> "none", value |-> Value("list", <<>>)]

RECURSIVE append_results(_, _, _)
append_results(existing_data, batch, i) ==
    IF i > Len(batch) THEN [raised |-> "none", data |-> existing_data]
    ELSE LET dezenas == mongodb_convert_string_to_list(batch[i].dezenas)
         IN IF dezenas.raised # "none" THEN [raised |-> dezenas.raised, data |-> existing_data]
            ELSE append_results(
                     Append(existing_data, Row(batch[i].concurso, batch[i].data, dezenas.value)),
                     batch, i + 1)

update_dataframe_mongodb(collection, batch, fail_at) ==
    LET existing_data == read_or_create_data_from_mongodb(collection, FALSE, FALSE)
        appended == append_results(existing_data, batch, 1)
        updated == update_data_to_mongodb(collection, appended.data, fail_at)
    IN IF appended.raised # "none"
       THEN [raised |-> appended.raised, failed |-> "none", data |-> <<>>,
             collection |-> collection]
       ELSE [raised |-> "none", failed |-> updated.failed, data |-> appended.data,
             collection |-> updated.collection]

FailAts == 0..MaxFailAt

-----------------------------------------------------------------------------
(* lottery_data.py: handle_successful_request, one action per backend.     *)
(* The action is the whole handler: load, merge, persist.                  *)

Outcome(status, exc, stage) == [status |-> status, exc |-> exc, stage |-> stage]
Fault(load, persist) == [load |-> load, persist |-> persist]
First(clean, store, returned) == [clean |-> clean, store |-> store, returned |-> returned]

NoFault == Fault("none", "none")
Clean == outcome.status = "returned" /\ fault = NoFault

\* the excel branch: what the run leaves behind
excel_run(file, batch, read_fault, write_fault) ==
    LET df_c == read_or_create_dataframe(file, read_fault)
        df_u == update_dataframe(df_c.df, batch)
        saved == save_dataframe(df_u.df, file, write_fault)
    IN IF df_c.raised # "none"
       THEN [file |-> file, df_create |-> <<>>, df_update |-> <<>>,
             outcome |-> Outcome("raised", df_c.raised, "load"),
             fault |-> Fault(df_c.failed, "none")]
       ELSE IF df_u.raised # "none"
       THEN [file |-> file, df_create |-> df_c.df, df_update |-> <<>>,
             outcome |-> Outcome("raised", df_u.raised, "merge"),
             fault |-> Fault(df_c.failed, "none")]
       ELSE IF saved.raised # "none"
       THEN [file |-> file, df_create |-> df_c.df, df_update |-> df_u.df,
             outcome |-> Outcome("raised", saved.raised, "persist"),
             fault |-> Fault(df_c.failed, saved.raised)]
       ELSE [file |-> saved.file, df_create |-> df_c.df, df_update |-> df_u.df,
             outcome |-> Outcome("returned", "none", "done"),
             fault |-> Fault(df_c.failed, "none")]

HandleExcel(batch, read_fault, write_fault, again) ==
    LET run == excel_run(excel_file, batch, read_fault, write_fault)
    IN /\ storage = "excel"
       /\ lottery_data' = batch
       /\ excel_file' = run.file
       /\ df_create' = run.df_create
       /\ df_update' = run.df_update
       /\ outcome' = run.outcome
       /\ fault' = run.fault
       /\ rerun' = again
       /\ first' = IF again THEN First(Clean, excel_file.rows, df_update)
                   ELSE First(FALSE, <<>>, <<>>)
       /\ store_before' = excel_file.rows
       /\ UNCHANGED <<storage, collection_lotofacil_results>>

HandleDatabase(batch, fail_at, again) ==
    LET run == update_dataframe_mongodb(collection_lotofacil_results, batch, fail_at)
    IN /\ storage = "database"
       /\ lottery_data' = batch
       /\ collection_lotofacil_results' = run.collection
       /\ df_update' = run.data
       /\ outcome' = IF run.raised # "none"
                     THEN Outcome("raised", run.raised, "merge")
                     ELSE Outcome("returned", "none", "done")
       /\ fault' = Fault("none", run.failed)
       /\ rerun' = again
       /\ first' = IF again THEN First(Clean, collection_lotofacil_results, df_update)
                   ELSE First(FALSE, <<>>, <<>>)
       /\ store_before' = collection_lotofacil_results
       /\ UNCHANGED <<storage, excel_file, df_create>>

\* a run on a new response of the feed
RunExcel ==
    \E batch \in Batches, read_fault \in ReadFaults, write_fault \in WriteFaults :
        /\ outcome.status = "idle"
        /\ HandleExcel(batch, read_fault, write_fault, FALSE)
        /\ UNCHANGED <<pred_vars, gen_vars, pool_vars, ext_vars>>

RunDatabase ==
    \E batch \in Batches, fail_at \in FailAts :
        /\ outcome.status = "idle"
        /\ HandleDatabase(batch, fail_at, FALSE)
        /\ UNCHANGED <<pred_vars, gen_vars, pool_vars, ext_vars>>

\* after a run that completed: the next run, when the feed sends the same
\* response again and the store answers
RepeatExcel ==
    /\ Clean
    /\ HandleExcel(lottery_data, "none", "none", TRUE)
    /\ UNCHANGED <<pred_vars, gen_vars, pool_vars, ext_vars>>

RepeatDatabase ==
    /\ Clean
    /\ HandleDatabase(lottery_data, 0, TRUE)
    /\ UNCHANGED <<pred_vars, gen_vars, pool_vars, ext_vars>>

\* the process ends: what the run held in memory is gone, the stores stay
Exit ==
    /\ outcome.status # "idle"
    /\ lottery_data' = <<>>
    /\ df_create' = <<>>
    /\ df_update' = <<>>
    /\ outcome' = Outcome("idle", "none", "none")
    /\ fault' = NoFault
    /\ rerun' = FALSE
    /\ first' = First(FALSE, <<>>, <<>>)
    /\ store_before' = <<>>
    /\ UNCHANGED <<storage, excel_file, collection_lotofacil_results,
                   pred_vars, gen_vars, pool_vars, ext_vars>>

-----------------------------------------------------------------------------
(* Initial states *)

StoreIdle ==
    /\ excel_file = [exists |-> FALSE, rows |-> <<>>]
    /\ collection_lotofacil_results = <<>>
    /\ lottery_data = <<>>
    /\ df_create = <<>>
    /\ df_update = <<>>
    /\ outcome = Outcome("idle", "none", "none")
    /\ fault = NoFault
    /\ rerun = FALSE
    /\ first = First(FALSE, <<>>, <<>>)
    /\ store_before = <<>>

PredIdle ==
    /\ collection_predictions = <<>>
    /\ prediction_call = <<>>
    /\ clock = 0

GenIdle ==
    /\ fixed_numbers = <<>>
    /\ combinations_set = {}
    /\ random_number = 0
    /\ pc_gen = "idle"

PoolIdle ==
    /\ probabilities = <<>>
    /\ sorted_probabilities = <<>>
    /\ unique_numbers = <<>>
    /\ pc_pool = "idle"

Occurrences(df, numbers, counts, total, report, pc) == [df |-> df, all_numbers |-> numbers, number_counts |-> counts, total_occurrences |-> total, report |-> report, pc |-> pc]

OccIdle == occurrences = Occurrences(<<>>, <<>>, <<>>, 0, <<>>, "idle")

Predictions(df, dezenas, combinations, calls, pc) == [df |-> df, df_dezenas |-> dezenas, final_combinations |-> combinations, calls |-> calls, pc |-> pc]

FlagIdle == predictions = Predictions(<<>>, <<>>, <<>>, <<>>, "idle")

ApiResult(status, exc, logged) == [status |-> status, exc |-> exc, logged |-> logged]
GetResult(exc, bound, status_code) == [exc |-> exc, bound |-> bound, status_code |-> status_code]
Request(get, api, start, df, pc) == [get_result |-> get, api_result |-> api, store_at_start |-> start, df |-> df, pc |-> pc]

FeedIdle ==
    request = Request(GetResult("none", FALSE, 0), ApiResult("idle", "none", FALSE),
                      <<>>, <<>>, "idle")

ConcIdle ==
    runs = [lottery_data |-> <<>>, df_create |-> <<>>, df_update |-> <<>>,
            pc |-> <<>>, log |-> <<>>]

FitResult(exc, fitted, logged) == [exc |-> exc, fitted |-> fitted, logged |-> logged]
MlpResult(status, exc) == [status |-> status, exc |-> exc]
Training(fit, mlp, pc) == [fit_result |-> fit, mlp_result |-> mlp, pc |-> pc]

FitIdle == training = Training(FitResult("none", FALSE, FALSE), MlpResult("idle", "none"), "idle")

ExtIdle == OccIdle /\ FlagIdle /\ FeedIdle /\ ConcIdle /\ FitIdle

Init ==
    /\ storage \in {"excel", "database"}
    /\ StoreIdle /\ PredIdle /\ GenIdle /\ PoolIdle /\ ExtIdle

Next == RunExcel \/ RunDatabase \/ RepeatExcel \/ RepeatDatabase \/ Exit

Spec == Init /\ [][Next]_vars

-----------------------------------------------------------------------------
(* mlp_model_operations.py: generate_final_combinations, one action per    *)
(* step of its loops.                                                      *)

max_number == 25
prediction_count == 11

Interval(a, b) == [i \in 1..(b - a + 1) |-> a + i - 1]

\* the arguments tried: 11 numbers in order and out of order, the 14 numbers
\* of a candidate pool, and lists that leave too few numbers or none
FixedNumbersInputs ==
    { Interval(1, 11),
      <<25, 3, 19, 8, 11, 14, 1, 22, 6, 17, 10>>,
      Interval(2, 15),
      Interval(1, 20),
      Interval(1, 25) }

\* lines 31-32: the loop goes on and draws
GenDraw ==
    /\ pc_gen = "while"
    /\ Cardinality(combinations_set) < prediction_count
    /\ \E r \in 1..max_number : random_number' = r
    /\ pc_gen' = "drawn"
    /\ UNCHANGED <<fixed_numbers, combinations_set>>

\* lines 33-34: a draw among the fixed numbers is drawn again
GenRedraw ==
    /\ pc_gen = "drawn"
    /\ random_number \in SeqRange(fixed_numbers)
    /\ \E r \in 1..max_number : random_number' = r
    /\ UNCHANGED <<fixed_numbers, combinations_set, pc_gen>>

\* a loop that builds the combination and forgets it
add_combination_dropped(combinations, fixed, number) ==
    combinations

\* lines 35-38: the combination is built and added to the set
add_combination(combinations, fixed, number) ==
    combinations \cup {Append(fixed, number)}

\* a loop that takes the draw without looking at the fixed numbers
GenAddUnchecked ==
    /\ pc_gen = "drawn"
    /\ combinations_set' = add_combination(combinations_set, fixed_numbers, random_number)
    /\ pc_gen' = "while"
    /\ UNCHANGED <<fixed_numbers, random_number>>

GenAdd ==
    /\ pc_gen = "drawn"
    /\ random_number \notin SeqRange(fixed_numbers)
    /\ combinations_set' = add_combination(combinations_set, fixed_numbers, random_number)
    /\ pc_gen' = "while"
    /\ UNCHANGED <<fixed_numbers, random_number>>

\* lines 31 and 40: the loop ends and the list is returned
GenReturn ==
    /\ pc_gen = "while"
    /\ Cardinality(combinations_set) >= prediction_count
    /\ pc_gen' = "done"
    /\ UNCHANGED <<fixed_numbers, combinations_set, random_number>>

GenInit ==
    /\ storage = "excel"
    /\ StoreIdle /\ PredIdle /\ PoolIdle /\ ExtIdle
    /\ fixed_numbers \in FixedNumbersInputs
    /\ combinations_set = {}
    /\ random_number = 0
    /\ pc_gen = "while"

GenNext ==
    \/ (GenDraw /\ UNCHANGED <<store_vars, pred_vars, pool_vars, ext_vars>>)
    \/ (GenRedraw /\ UNCHANGED <<store_vars, pred_vars, pool_vars, ext_vars>>)
    \/ (GenAdd /\ UNCHANGED <<store_vars, pred_vars, pool_vars, ext_vars>>)
    \/ (GenReturn /\ UNCHANGED <<store_vars, pred_vars, pool_vars, ext_vars>>)

GenSpec == GenInit /\ [][GenNext]_vars

\* the interpreter keeps executing the loop
GenFairSpec == GenSpec /\ WF_vars(GenNext)

\* the call of one argument of 11 distinct numbers, given out of order
TermInit ==
    /\ storage = "excel"
    /\ StoreIdle /\ PredIdle /\ PoolIdle /\ ExtIdle
    /\ fixed_numbers = <<25, 3, 19, 8, 11, 14, 1, 22, 6, 17, 10>>
    /\ combinations_set = {}
    /\ random_number = 0
    /\ pc_gen = "while"

TermSpec == TermInit /\ [][GenNext]_vars /\ WF_vars(GenNext)

-----------------------------------------------------------------------------
(* data_frame_operations_mongodb.py: the predictions collection *)

PredictionDocument(combination, occurred, now) ==
    [combination |-> combination, occurred_before |-> occurred, prediction_date |-> now]

\* find_fault: find_one raises PyMongoError
combination_exists(collection, combination, find_fault) ==
    IF find_fault THEN FALSE
    ELSE \E i \in 1..Len(collection) : collection[i].combination = combination

\* insert_fault: insert_one raises PyMongoError
save_predictions_to_mongodb(collection, final_combinations, occurred, now, find_fault, insert_fault) ==
    IF combination_exists(collection, final_combinations, find_fault) THEN collection
    ELSE IF insert_fault THEN collection
    ELSE Append(collection, PredictionDocument(final_combinations, occurred, now))

\* the combinations saved: two that differ in the number drawn, and one that
\* holds the numbers of the first in another order
CombinationInputs ==
    { Append(Interval(1, 11), 12),
      Append(Interval(1, 11), 13),
      Interval(1, 10) \o <<12, 11>> }

SavePrediction ==
    \E combination \in CombinationInputs, occurred \in BOOLEAN,
       find_fault \in BOOLEAN, insert_fault \in BOOLEAN :
        /\ clock < MaxCalls
        /\ clock' = clock + 1
        /\ collection_predictions' =
              save_predictions_to_mongodb(collection_predictions, combination, occurred,
                                          clock + 1, find_fault, insert_fault)
        /\ prediction_call' = <<[combination |-> combination, occurred |-> occurred,
                                 before |-> collection_predictions]>>

PredInit ==
    /\ storage = "database"
    /\ StoreIdle /\ PredIdle /\ GenIdle /\ PoolIdle /\ ExtIdle

PredNext == SavePrediction /\ UNCHANGED <<store_vars, gen_vars, pool_vars, ext_vars>>

PredSpec == PredInit /\ [][PredNext]_vars

-----------------------------------------------------------------------------
(* mlp_model_operations.py: generate_random_numbers, from the mean score   *)
(* per class that predict_proba gave.  Classes are counted from 0.         *)

pool_size == 14
pool_max == 25

Min(a, b) == IF a < b THEN a ELSE b
Max(a, b) == IF a > b THEN a ELSE b

\* the score vectors tried: n classes, scores rising or falling with the
\* class, and the classes ranked tie and tie + 1 sharing a score (tie > 0)
Scores(n, rising, tie) ==
    [i \in 1..n |->
        LET b == IF rising THEN i ELSE n + 1 - i
        IN IF tie > 0 /\ b = tie THEN b + 1 ELSE b]

ScoreInputs ==
    { Scores(n, rising, tie) :
        n \in (pool_size - MaxPad)..MaxClasses, rising \in BOOLEAN, tie \in 0..(pool_size + 1) }

\* np.argsort(-p): the classes by falling score; equal scores come in the
\* order of the classes, or in the reverse order when flip
argsort_desc(p, flip) ==
    LET n == Len(p)
        pos(i) == 1 + Cardinality({j \in 1..n : p[j] > p[i]})
                    + Cardinality({j \in 1..n : p[j] = p[i] /\ (IF flip THEN j > i ELSE j < i)})
    IN [k \in 1..n |-> (CHOOSE i \in 1..n : pos(i) = k) - 1]

\* a ranking shifted but not clipped
clip_ranking_unclipped(ranking) ==
    [k \in 1..Min(pool_size, Len(ranking)) |-> ranking[k] + 1]

\* np.clip(argsort(...)[:14] + 1, 1, 25)
clip_ranking(ranking) ==
    [k \in 1..Min(pool_size, Len(ranking)) |-> Min(Max(ranking[k] + 1, 1), pool_max)]

\* list(set(a)): the set of small ints is walked in rising order
RECURSIVE list_of_set(_)
list_of_set(S) ==
    IF S = {} THEN <<>>
    ELSE LET least == CHOOSE x \in S : \A y \in S : x <= y
         IN <<least>> \o list_of_set(S \ {least})

\* lines 87-94
PoolRank ==
    /\ pc_pool = "rank"
    /\ \E flip \in BOOLEAN :
          sorted_probabilities' = clip_ranking(argsort_desc(probabilities, flip))
    /\ unique_numbers' = list_of_set(SeqRange(sorted_probabilities'))
    /\ pc_pool' = "pad"
    /\ UNCHANGED probabilities

\* lines 96-99: one turn of the padding loop
PoolPad ==
    /\ pc_pool = "pad"
    /\ Len(unique_numbers) < pool_size
    /\ \E r \in 1..pool_max :
          unique_numbers' = IF r \notin SeqRange(unique_numbers)
                            THEN Append(unique_numbers, r)
                            ELSE unique_numbers
    /\ UNCHANGED <<probabilities, sorted_probabilities, pc_pool>>

\* lines 96 and 101
PoolReturn ==
    /\ pc_pool = "pad"
    /\ Len(unique_numbers) >= pool_size
    /\ pc_pool' = "done"
    /\ UNCHANGED <<probabilities, sorted_probabilities, unique_numbers>>

PoolInit ==
    /\ storage = "excel"
    /\ StoreIdle /\ PredIdle /\ GenIdle /\ ExtIdle
    /\ probabilities \in ScoreInputs
    /\ sorted_probabilities = <<>>
    /\ unique_numbers = <<>>
    /\ pc_pool = "rank"

PoolNext ==
    \/ (PoolRank /\ UNCHANGED <<store_vars, pred_vars, gen_vars, ext_vars>>)
    \/ (PoolPad /\ UNCHANGED <<store_vars, pred_vars, gen_vars, ext_vars>>)
    \/ (PoolReturn /\ UNCHANGED <<store_vars, pred_vars, gen_vars, ext_vars>>)

PoolSpec == PoolInit /\ [][PoolNext]_vars

-----------------------------------------------------------------------------
(* Properties of the stores and the merge *)

\* the records the deployment's store holds
Store == IF storage = "excel" THEN excel_file.rows ELSE collection_lotofacil_results

DrawIds(records) == {records[i].concurso : i \in 1..Len(records)}
DistinctIds(records) ==
    \A i, j \in 1..Len(records) : records[i].concurso = records[j].concurso => i = j

\* the integers a numbers field stands for
Numbers(x) == [i \in 1..Len(x.items) |-> x.items[i].v]

\* a numbers field int() cannot parse: no list and no text, or an entry that is no decimal
Unparsable(dezenas) ==
    \/ dezenas.kind \notin {"list", "str"}
    \/ \E i \in 1..Len(dezenas.items) : ~can_int(dezenas.items[i])

\* the last payload of the batch that names the draw
LastFor(batch, concurso) ==
    batch[CHOOSE i \in 1..Len(batch) :
            /\ batch[i].concurso = concurso
            /\ \A j \in (i + 1)..Len(batch) : batch[j].concurso # concurso]

Merged == outcome.stage \in {"persist", "done"}

\* C1: merging the batch again into the result of the first merge, both runs
\* without a store failure, leaves the same draw records in the store and in
\* the collection the merge returns.
C1_MergeIdempotent ==
    (rerun /\ first.clean /\ Clean) =>
        /\ Store = first.store
        /\ SeqRange(df_update) = SeqRange(first.returned)

C1_Witness ==
    /\ rerun /\ first.clean /\ Clean
    /\ storage = "excel"
    /\ Len(lottery_data) >= 2
    /\ Len(excel_file.rows) >= 2
    /\ \E i \in 1..Len(store_before) : store_before[i].concurso \in DrawIds(lottery_data)

\* C2: after a merge no two records of the returned collection and no two
\* records of the store share a draw_id.
C2_UniqueDrawIds ==
    outcome.status = "returned" =>
        /\ DistinctIds(df_update)
        /\ DistinctIds(excel_file.rows)
        /\ DistinctIds(collection_lotofacil_results)

\* C3: update_dataframe keeps every row of the frame in its place, gives a
\* row whose draw_id is in the batch the date and numbers of the (last)
\* payload naming it, leaves the other rows as they were and adds one row per
\* new draw_id only: the size is unchanged when every payload is known.  The
\* draw 2500 scenario: one record, and 16 for 15 on the re-merge.
C3_UpdateNotAppend ==
    (storage = "excel" /\ Merged) =>
        /\ Len(df_update) = Len(df_create)
                + Cardinality(DrawIds(lottery_data) \ DrawIds(df_create))
        /\ \A k \in 1..Len(df_create) :
              IF df_create[k].concurso \in DrawIds(lottery_data)
              THEN LET p == LastFor(lottery_data, df_create[k].concurso)
                   IN /\ df_update[k].concurso = p.concurso
                      /\ df_update[k].data = p.data
                      /\ Numbers(df_update[k].dezenas) = Numbers(p.dezenas)
              ELSE df_update[k] = df_create[k]
        /\ (DrawIds(lottery_data) = {2500} /\ DrawIds(df_create) \subseteq {2500}) =>
              /\ Len(df_update) = 1
              /\ Numbers(df_update[1].dezenas) =
                    Numbers(lottery_data[Len(lottery_data)].dezenas)

C3_Witness ==
    /\ storage = "excel" /\ Merged
    /\ Len(df_create) = 1 /\ df_create[1].concurso = 2500
    /\ 15 \in SeqRange(Numbers(df_create[1].dezenas))
    /\ Len(lottery_data) = 1 /\ lottery_data[1].concurso = 2500
    /\ Len(df_update) = 1
    /\ 16 \in SeqRange(Numbers(df_update[1].dezenas))
    /\ 15 \notin SeqRange(Numbers(df_update[1].dezenas))

\* C4: after the document backend has reconciled a payload without a store
\* failure, the one stored record of its draw_id holds the payload's date and
\* numbers.
C4_DocumentUpsert ==
    (storage = "database" /\ Clean) =>
        \A i \in 1..Len(lottery_data) :
            (\A j \in 1..Len(lottery_data) :
                lottery_data[j].concurso = lottery_data[i].concurso => j = i) =>
            \E k \in 1..Len(collection_lotofacil_results) :
                /\ collection_lotofacil_results[k].concurso = lottery_data[i].concurso
                /\ collection_lotofacil_results[k].data = lottery_data[i].data
                /\ Numbers(collection_lotofacil_results[k].dezenas) =
                      Numbers(lottery_data[i].dezenas)

\* C9: a store failure during a load or a persist ends in a normal return;
\* the failed load gives an empty collection, the failed persist leaves the
\* store as it was.
C9_StoreFailOpen ==
    /\ fault # NoFault => outcome.status = "returned"
    /\ fault.load # "none" => df_create = <<>>
    /\ fault.persist # "none" => Store = store_before

\* C10: a batch holding a payload whose numbers cannot be parsed ends, when
\* the store does not fail, in a failure raised to the caller, and no store
\* holds a record with empty or unparsable numbers.
C10_MalformedSurfaced ==
    /\ (/\ outcome.status # "idle"
        /\ fault = NoFault
        /\ \E i \in 1..Len(lottery_data) : Unparsable(lottery_data[i].dezenas))
       => (outcome.status = "raised" /\ outcome.exc \in {"ValueError", "TypeError"})
    /\ \A k \in 1..Len(Store) :
          ~Unparsable(Store[k].dezenas) /\ Len(Store[k].dezenas.items) > 0

\* C15: a run of the tabular pipeline (load, merge, save) keeps every
\* draw_id the file held when the run began, also when the load failed and
\* gave an empty collection; so no draw_id once persisted is ever missing.
C15_DrawsNeverDeleted ==
    storage = "excel" => DrawIds(store_before) \subseteq DrawIds(excel_file.rows)

-----------------------------------------------------------------------------
(* Properties of generate_final_combinations *)

IsSet(s) == \A i, j \in 1..Len(s) : s[i] = s[j] => i = j

\* C5: for 11 distinct fixed numbers of 1..25 the set holds, at every turn of
\* the loop, combinations of 12 numbers: the fixed numbers, then one number
\* of 1..25 that is none of them, a different one in each combination (so
\* the combinations are pairwise distinct as sets, each of 12 distinct
\* numbers); the list returned holds prediction_count of them.
C5_CombinationShape ==
    LET fixed == SeqRange(fixed_numbers)
    IN (/\ pc_gen \in {"while", "drawn", "done"}
        /\ Len(fixed_numbers) = 11 /\ Cardinality(fixed) = 11
        /\ fixed \subseteq 1..max_number) =>
           /\ pc_gen = "done" => Cardinality(combinations_set) = prediction_count
           /\ Cardinality({c[12] : c \in combinations_set}) = Cardinality(combinations_set)
           /\ \A c \in combinations_set :
                 /\ Len(c) = 12
                 /\ SubSeq(c, 1, 11) = fixed_numbers
                 /\ c[12] \in (1..max_number) \ fixed

C5_Witness ==
    /\ pc_gen = "done"
    /\ fixed_numbers = <<25, 3, 19, 8, 11, 14, 1, 22, 6, 17, 10>>
    /\ Cardinality(combinations_set) = 11

\* the fixed numbers leave fewer numbers than combinations are asked for
Degenerate ==
    max_number - Cardinality(SeqRange(fixed_numbers) \cap (1..max_number)) < prediction_count

\* C6: with too few numbers left the generation ends in a generation-exhausted
\* error, nothing returned.
C6_GenerationExhausted ==
    (pc_gen = "while" /\ Degenerate) ~> (pc_gen = "exhausted")

\* random.randint gives a number that is not fixed and that no combination
\* of the set ends with
DrawFresh ==
    /\ pc_gen' = "drawn"
    /\ random_number' \notin SeqRange(fixed_numbers)
    /\ Append(fixed_numbers, random_number') \notin combinations_set

-----------------------------------------------------------------------------
(* Properties of generate_random_numbers *)

\* C7: the pool never holds a number twice nor a number outside 1..25, so a
\* number is added only when the pool lacks it, and the pool returned holds
\* exactly 14 numbers.
C7_PoolPadding ==
    pc_pool \in {"pad", "done"} =>
        /\ IsSet(unique_numbers)
        /\ SeqRange(unique_numbers) \subseteq 1..25
        /\ SeqRange(sorted_probabilities) \subseteq SeqRange(unique_numbers)
        /\ Len(unique_numbers) <= 14
        /\ pc_pool = "done" => Len(unique_numbers) = 14

\* more classes than numbers, two of the best 14 clipped to 25, and a number
\* added by the padding loop
C7_Witness ==
    /\ pc_pool = "done"
    /\ Len(probabilities) > 25
    /\ Cardinality(SeqRange(sorted_probabilities)) < Len(sorted_probabilities)
    /\ Len(unique_numbers) = 14

-----------------------------------------------------------------------------
(* Properties of the predictions collection *)

\* C8: the collection holds one document per combination at most, and a call
\* with a combination already stored leaves the collection as it was.
C8_PredictionInsertIdempotent ==
    /\ \A i, j \in 1..Len(collection_predictions) :
          collection_predictions[i].combination = collection_predictions[j].combination
              => i = j
    /\ \A n \in 1..Len(prediction_call) :
          (\E i \in 1..Len(prediction_call[n].before) :
              prediction_call[n].before[i].combination = prediction_call[n].combination)
          => collection_predictions = prediction_call[n].before

-----------------------------------------------------------------------------
(* main.py: count_and_print_occurrences, one action per statement and one  *)
(* per turn of its loop.  Its argument is the frame the tabular backend    *)
(* loads: a history is merged, saved and read back.                        *)

MaxHistory == 3

\* the numbers of the records tried: three draws of 15, and a record whose
\* payload named a number twice (no merge looks at the numbers it stores)
OccDraws ==
    { Interval(1, 15),
      Interval(1, 14) \o <<16>>,
      Interval(2, 16),
      <<3, 3, 7>> }

OccHistories == SeqsUpTo(OccDraws, MaxHistory)

\* the frame main.py hands over: the draws as payloads 1, 2, ... of one
\* response, merged into an empty frame, saved, and loaded by the next run
loaded_frame(history) ==
    LET batch == [i \in 1..Len(history) |-> Payload(i, "2024-01-07", IntList(history[i]))]
        merged == update_dataframe(create_new_dataframe, batch)
        saved == save_dataframe(merged.df, [exists |-> FALSE, rows |-> <<>>], "none")
    IN read_or_create_dataframe(saved.file, "none").df

RECURSIVE flatten(_)
flatten(column) ==
    IF Len(column) = 0 THEN <<>>
    ELSE Numbers(column[1].dezenas) \o flatten(Tail(column))

\* float(n): what dtype="float64" makes of a number of the list
PyFloat(n) == [py |-> "float", v |-> n, text |-> "dec"]

\* a count of the values in the order they first appear
value_counts_unsorted(numbers, flip) ==
    LET keys == SeqRange(numbers)
        count(k) == Cardinality({i \in 1..Len(numbers) : numbers[i] = k})
        first_at(k) == CHOOSE i \in 1..Len(numbers) :
                          numbers[i] = k /\ \A j \in 1..(i - 1) : numbers[j] # k
        pos(k) == 1 + Cardinality({m \in keys : first_at(m) < first_at(k)})
    IN [p \in 1..Cardinality(keys) |->
           LET k == CHOOSE k \in keys : pos(k) = p
           IN [number |-> PyFloat(k), count |-> count(k)]]

\* pd.Series(numbers, dtype="float64").value_counts(): the distinct values by
\* falling count; equal counts come in the order the values first appear, or
\* in the reverse order when flip
value_counts(numbers, flip) ==
    LET keys == SeqRange(numbers)
        count(k) == Cardinality({i \in 1..Len(numbers) : numbers[i] = k})
        first_at(k) == CHOOSE i \in 1..Len(numbers) :
                          numbers[i] = k /\ \A j \in 1..(i - 1) : numbers[j] # k
        pos(k) == 1 + Cardinality({m \in keys : count(m) > count(k)})
                    + Cardinality({m \in keys :
                          /\ count(m) = count(k)
                          /\ IF flip THEN first_at(m) > first_at(k)
                                     ELSE first_at(m) < first_at(k)})
    IN [p \in 1..Cardinality(keys) |->
           LET k == CHOOSE k \in keys : pos(k) = p
           IN [number |-> PyFloat(k), count |-> count(k)]]

RECURSIVE counts_sum(_)
counts_sum(counts) ==
    IF Len(counts) = 0 THEN 0 ELSE counts[1].count + counts_sum(Tail(counts))

\* (count / total) * 100, as the fraction num / den
percentage_of(count, total) == [num |-> count * 100, den |-> total]

\* f"{percentage:.2f}": the nearest hundredth, a tie to the even one
format_2f(percentage) ==
    LET q == (percentage.num * 100) \div percentage.den
        rest == (percentage.num * 100) % percentage.den
    IN IF 2 * rest > percentage.den \/ (2 * rest = percentage.den /\ q % 2 = 1)
       THEN q + 1 ELSE q

\* line 162
OccFlatten ==
    /\ pc_occ = "flatten"
    /\ occurrences' = [occurrences EXCEPT !.all_numbers = flatten(occ_df), !.pc = "count"]

\* line 163
OccCount ==
    /\ pc_occ = "count"
    /\ \E flip \in BOOLEAN :
          occurrences' = [occurrences EXCEPT !.number_counts = value_counts(all_numbers, flip),
                                             !.pc = "sum"]

\* line 164
OccSum ==
    /\ pc_occ = "sum"
    /\ occurrences' = [occurrences EXCEPT !.total_occurrences = counts_sum(number_counts),
                                          !.pc = "print"]

\* lines 165-171: one turn of the loop
OccPrint ==
    /\ pc_occ = "print"
    /\ Len(occ_report) < Len(number_counts)
    /\ LET item == number_counts[Len(occ_report) + 1]
           percentage == percentage_of(item.count, total_occurrences)
           line == [number |-> item.number, count |-> item.count,
                    total |-> total_occurrences, percentage |-> percentage,
                    printed |-> format_2f(percentage)]
       IN occurrences' = [occurrences EXCEPT !.report = Append(occ_report, line)]

\* line 165: the items are used up and the method returns
OccReturn ==
    /\ pc_occ = "print"
    /\ Len(occ_report) >= Len(number_counts)
    /\ occurrences' = [occurrences EXCEPT !.pc = "done"]

OccInit ==
    /\ storage = "excel"
    /\ StoreIdle /\ PredIdle /\ GenIdle /\ PoolIdle
    /\ FlagIdle /\ FeedIdle /\ ConcIdle /\ FitIdle
    /\ \E h \in OccHistories :
          occurrences = Occurrences(loaded_frame(h), <<>>, <<>>, 0, <<>>, "flatten")

OccNext ==
    \/ (OccFlatten /\ UNCHANGED <<store_vars, pred_vars, gen_vars, pool_vars, predictions, request, runs, training>>)
    \/ (OccCount /\ UNCHANGED <<store_vars, pred_vars, gen_vars, pool_vars, predictions, request, runs, training>>)
    \/ (OccSum /\ UNCHANGED <<store_vars, pred_vars, gen_vars, pool_vars, predictions, request, runs, training>>)
    \/ (OccPrint /\ UNCHANGED <<store_vars, pred_vars, gen_vars, pool_vars, predictions, request, runs, training>>)
    \/ (OccReturn /\ UNCHANGED <<store_vars, pred_vars, gen_vars, pool_vars, predictions, request, runs, training>>)

OccSpec == OccInit /\ [][OccNext]_vars

-----------------------------------------------------------------------------
(* Properties of count_and_print_occurrences *)

HistoryNumbers(i) == SeqRange(Numbers(occ_df[i].dezenas))
DrawsContaining(n) == Cardinality({i \in 1..Len(occ_df) : n \in HistoryNumbers(i)})
Occurring == UNION {HistoryNumbers(i) : i \in 1..Len(occ_df)}

RECURSIVE percentages_num(_)
percentages_num(report) ==
    IF Len(report) = 0 THEN 0 ELSE report[1].percentage.num + percentages_num(Tail(report))

\* no record of the history names a number twice
NoRepeats == \A i \in 1..Len(occ_df) : IsSet(Numbers(occ_df[i].dezenas))

\* the report of a finished call: one line per number that occurs, holding the
\* number of draws that contain it; the lines by non-increasing count; each
\* percentage count / total * 100, printed to the nearest hundredth, total the
\* sum of the counts; the percentages sum to 100
OccurrenceReport ==
    /\ {occ_report[k].number.v : k \in 1..Len(occ_report)} = Occurring
    /\ Len(occ_report) = Cardinality(Occurring)
    /\ \A k \in 1..Len(occ_report) :
          /\ occ_report[k].count = DrawsContaining(occ_report[k].number.v)
          /\ k > 1 => occ_report[k - 1].count >= occ_report[k].count
          /\ occ_report[k].total = counts_sum(number_counts)
          /\ occ_report[k].percentage.num = occ_report[k].count * 100
          /\ occ_report[k].percentage.den = occ_report[k].total
          /\ LET off == occ_report[k].printed * occ_report[k].total
                          - occ_report[k].count * 10000
             IN 2 * off <= occ_report[k].total /\ -2 * off <= occ_report[k].total
    /\ percentages_num(occ_report) = 100 * total_occurrences /\ total_occurrences > 0

\* the history {1..15}, {1..14,16}, {2..16}: 1 is counted twice, 16 twice
SyntheticHistory ==
    {HistoryNumbers(i) : i \in 1..Len(occ_df)} = {1..15, (1..14) \cup {16}, 2..16}
        /\ Len(occ_df) = 3

SyntheticCounts ==
    \A k \in 1..Len(occ_report) :
        occ_report[k].number.v \in {1, 16} => occ_report[k].count = 2

\* C11 (as amended): for a history that holds a draw at least and whose
\* records name no number twice, the report gives for each number that occurs
\* the number of draws containing it, by non-increasing count, each with the
\* percentage count/total*100 of the sum of the counts, the percentages
\* summing to 100; for the history {1..15}, {1..14,16}, {2..16} the numbers 1
\* and 16 are counted twice.
C11_OccurrenceReport ==
    (pc_occ = "done" /\ Len(occ_df) > 0 /\ NoRepeats) =>
        /\ OccurrenceReport
        /\ SyntheticHistory => SyntheticCounts

C11_Witness ==
    /\ pc_occ = "done"
    /\ SyntheticHistory
    /\ Len(occ_report) = 16
    /\ \E k \in 1..Len(occ_report) : occ_report[k].number.v = 1 /\ occ_report[k].count = 2
    /\ \E k \in 1..Len(occ_report) : occ_report[k].number.v = 16 /\ occ_report[k].count = 2
    /\ occ_report[1].count = 3 /\ occ_report[16].count = 2

\* C11 (as stated): the same of any history.
C11_AnyHistory ==
    pc_occ = "done" =>
        /\ OccurrenceReport
        /\ SyntheticHistory => SyntheticCounts

-----------------------------------------------------------------------------
(* main.py: handle_predictions and print_final_combinations, one action    *)
(* per turn of the loop over the combinations.  The predictions store      *)
(* answers every request.                                                  *)

MaxDraws == 2

\* the numbers of the draws of the history, as the feed listed them
FlagDraws ==
    { Interval(1, 15),
      Interval(2, 16),
      <<16, 2, 3, 4, 5, 6, 7, 8, 9, 10, 11, 12, 13, 14, 15>>,
      Interval(11, 25) }

FlagHistories == SeqsUpTo(FlagDraws, MaxDraws)

\* get_sorted_combined_numbers: the pool of 14, sorted
CombinedNumbersInputs == { Interval(1, 14), Interval(2, 15) }

\* np.array([int(num) for num in dezenas]) for dezenas in df["dezenas"]
dezenas_arrays(df) == [i \in 1..Len(df) |-> Numbers(df[i].dezenas)]

\* np.array_equal(a, x): the same shape and the same element at every index
array_equal(a, x) ==
    Len(a) = Len(x) /\ \A i \in 1..Len(a) : a[i] = x[i]

\* line 127
occurred_before(final_combination, dezenas) ==
    \E i \in 1..Len(dezenas) : array_equal(final_combination, dezenas[i])

\* list(combinations_set) for 14 fixed numbers: the 11 numbers left, each
\* appended to the fixed ones; the list by rising or by falling last number
list_of_combinations_set(fixed, falling) ==
    LET left == list_of_set((1..max_number) \ SeqRange(fixed))
        n == Len(left)
    IN [k \in 1..n |-> Append(fixed, left[IF falling THEN n + 1 - k ELSE k])]

\* lines 144-149
HandlePredictions ==
    /\ pc_flag = "start"
    /\ \E combined_numbers \in CombinedNumbersInputs, falling \in BOOLEAN :
          predictions' = [predictions EXCEPT
              !.df_dezenas = dezenas_arrays(pred_df),
              !.final_combinations = list_of_combinations_set(combined_numbers, falling),
              !.pc = "print"]
    /\ UNCHANGED pred_vars

\* lines 123-132: one turn of the loop
PrintFinalCombination ==
    /\ pc_flag = "print"
    /\ Len(flag_calls) < Len(final_combination_list)
    /\ LET final_combination == final_combination_list[Len(flag_calls) + 1]
           occurred == occurred_before(final_combination, df_dezenas)
       IN /\ collection_predictions' =
                save_predictions_to_mongodb(collection_predictions, final_combination,
                                            occurred, clock + 1, FALSE, FALSE)
          /\ prediction_call' = <<[combination |-> final_combination, occurred |-> occurred,
                                   before |-> collection_predictions]>>
          /\ predictions' = [predictions EXCEPT
                !.calls = Append(flag_calls, [combination |-> final_combination,
                                              occurred_before |-> occurred])]
    /\ clock' = clock + 1

\* line 123: the combinations are used up
PrintReturn ==
    /\ pc_flag = "print"
    /\ Len(flag_calls) >= Len(final_combination_list)
    /\ predictions' = [predictions EXCEPT !.pc = "done"]
    /\ UNCHANGED pred_vars

FlagInit ==
    /\ storage = "excel"
    /\ StoreIdle /\ PredIdle /\ GenIdle /\ PoolIdle
    /\ OccIdle /\ FeedIdle /\ ConcIdle /\ FitIdle
    /\ \E h \in FlagHistories :
          predictions = Predictions(loaded_frame(h), <<>>, <<>>, <<>>, "start")

FlagNext ==
    \/ (HandlePredictions /\ UNCHANGED <<store_vars, gen_vars, pool_vars, occurrences, request, runs, training>>)
    \/ (PrintFinalCombination /\ UNCHANGED <<store_vars, gen_vars, pool_vars, occurrences, request, runs, training>>)
    \/ (PrintReturn /\ UNCHANGED <<store_vars, gen_vars, pool_vars, occurrences, request, runs, training>>)

FlagSpec == FlagInit /\ [][FlagNext]_vars

-----------------------------------------------------------------------------
(* Properties of print_final_combinations *)

\* C13: the occurred_before flag print_final_combinations passes to
\* save_predictions_to_mongodb is true exactly when the numbers of the
\* combination, as a set, are the numbers of some draw of the history, in
\* whatever order the combination lists them.
C13_OccurredBeforeSetBased ==
    \A n \in 1..Len(flag_calls) :
        flag_calls[n].occurred_before <=>
            \E i \in 1..Len(pred_df) :
                SeqRange(flag_calls[n].combination) = SeqRange(Numbers(pred_df[i].dezenas))

-----------------------------------------------------------------------------
(* main.py and lottery_data.py: one process, from the request to the feed  *)
(* to the load that precedes the predictions or the report.  The stores    *)
(* answer every request.                                                   *)

MaxResponse == 1

\* what requests.get and raise_for_status do: a response of status 200, one
\* of another status that is no error, an error status, and no response
GetOutcomes ==
    { GetResult("none", TRUE, 200),
      GetResult("none", TRUE, 204),
      GetResult("HTTPError", TRUE, 500),
      GetResult("ConnectionError", FALSE, 0),
      GetResult("Timeout", FALSE, 0) }

FeedBatches == SeqsUpTo(Payloads, MaxResponse)

\* lines 82-87: a RequestException is logged; the return reads the local
\* variable, which requests.get did not assign when it raised
download_lottery_file(get) ==
    IF get.bound
    THEN [raised |-> "none", logged |-> get.exc # "none", status_code |-> get.status_code]
    ELSE [raised |-> "UnboundLocalError", logged |-> get.exc # "none", status_code |-> 0]

\* main.py 192-194
MainStart ==
    /\ pc_main = "start"
    /\ \E get_games \in BOOLEAN :
          request' = [request EXCEPT !.store_at_start = Store,
                                     !.pc = IF get_games THEN "api" ELSE "load"]
    /\ UNCHANGED store_vars

\* handle_api_request ends: with a normal return main.py goes on to the load
ApiEnds(get, result) ==
    request' = [request EXCEPT !.get_result = get,
                               !.api_result = result,
                               !.pc = IF result.status = "returned" THEN "load" ELSE "crashed"]

\* handle_api_request: the gate says no
ApiSkipped ==
    /\ ApiEnds(get_result, ApiResult("returned", "none", FALSE))
    /\ UNCHANGED store_vars

\* handle_api_request: the download, then update_lottery_data
ApiDownloaded(get, batch, json_ok) ==
    LET downloaded == download_lottery_file(get)
    IN \/ /\ downloaded.raised # "none"
          /\ ApiEnds(get, ApiResult("raised", downloaded.raised, downloaded.logged))
          /\ UNCHANGED store_vars
       \/ /\ downloaded.raised = "none"
          /\ downloaded.status_code # 200
          /\ ApiEnds(get, ApiResult("returned", "none", downloaded.logged))
          /\ UNCHANGED store_vars
       \/ /\ downloaded.raised = "none"
          /\ downloaded.status_code = 200
          /\ ~json_ok
          /\ ApiEnds(get, ApiResult("returned", "none", TRUE))
          /\ UNCHANGED store_vars
       \/ /\ downloaded.raised = "none"
          /\ downloaded.status_code = 200
          /\ json_ok
          /\ (HandleExcel(batch, "none", "none", FALSE)
                \/ HandleDatabase(batch, 0, FALSE))
          /\ ApiEnds(get, IF outcome'.status = "raised"
                          THEN ApiResult("raised", outcome'.exc, FALSE)
                          ELSE ApiResult("returned", "none", FALSE))

\* lottery_data.py 140-149, with all it calls
HandleApiRequest ==
    /\ pc_main = "api"
    /\ \E should_download \in BOOLEAN, get \in GetOutcomes,
          batch \in FeedBatches, json_ok \in BOOLEAN :
          IF should_download THEN ApiDownloaded(get, batch, json_ok) ELSE ApiSkipped

\* main.py 198-206
LoadStore ==
    /\ pc_main = "load"
    /\ LET loaded == read_or_create_dataframe(excel_file, "none")
       IN request' =
             IF storage = "excel"
             THEN [request EXCEPT !.df = loaded.df,
                                  !.pc = IF loaded.raised = "none" THEN "loaded"
                                                                   ELSE "crashed"]
             ELSE [request EXCEPT !.df = read_or_create_data_from_mongodb(
                                             collection_lotofacil_results, TRUE, FALSE),
                                  !.pc = "loaded"]
    /\ UNCHANGED store_vars

\* the process ends: what it held in memory is gone, the stores stay
MainExit ==
    /\ pc_main \in {"loaded", "crashed"}
    /\ request' = Request(GetResult("none", FALSE, 0), ApiResult("idle", "none", FALSE),
                          <<>>, <<>>, "start")
    /\ lottery_data' = <<>>
    /\ df_create' = <<>>
    /\ df_update' = <<>>
    /\ outcome' = Outcome("idle", "none", "none")
    /\ fault' = NoFault
    /\ rerun' = FALSE
    /\ first' = First(FALSE, <<>>, <<>>)
    /\ store_before' = <<>>
    /\ UNCHANGED <<storage, excel_file, collection_lotofacil_results>>

FeedInit ==
    /\ storage \in {"excel", "database"}
    /\ StoreIdle /\ PredIdle /\ GenIdle /\ PoolIdle
    /\ OccIdle /\ FlagIdle /\ ConcIdle /\ FitIdle
    /\ request = Request(GetResult("none", FALSE, 0), ApiResult("idle", "none", FALSE),
                         <<>>, <<>>, "start")

FeedNext ==
    \/ (MainStart /\ UNCHANGED <<pred_vars, gen_vars, pool_vars, occurrences, predictions, runs, training>>)
    \/ (HandleApiRequest /\ UNCHANGED <<pred_vars, gen_vars, pool_vars, occurrences, predictions, runs, training>>)
    \/ (LoadStore /\ UNCHANGED <<pred_vars, gen_vars, pool_vars, occurrences, predictions, runs, training>>)
    \/ (MainExit /\ UNCHANGED <<pred_vars, gen_vars, pool_vars, occurrences, predictions, runs, training>>)

FeedSpec == FeedInit /\ [][FeedNext]_vars

-----------------------------------------------------------------------------
(* Properties of handle_api_request *)

\* the request to the feed failed: no connection, a timeout, an error status
FeedFailed == get_result.exc \in {"ConnectionError", "Timeout", "HTTPError"}

\* C14: when the request to the feed fails, handle_api_request returns
\* normally, the failure logged and the store as it was, and the run goes on
\* to the load; no exception leaves handle_api_request.
C14_FeedFailureDegrades ==
    (pc_main \in {"load", "loaded", "crashed"} /\ FeedFailed) =>
        /\ api_result.status = "returned"
        /\ api_result.logged
        /\ Store = store_at_start
        /\ pc_main # "crashed"

-----------------------------------------------------------------------------
(* lottery_data.py 173-177: two runs of handle_successful_request on the   *)
(* same file, one action per statement of each.  Nothing locks the file.   *)

Runs == {1, 2}

\* the responses: none or one payload each
ConcBatches == {<<>>} \cup {<<payload>> : payload \in Payloads}

\* the file when the runs begin: absent, or left by a run that ingested draw 1
ConcFiles ==
    { [exists |-> FALSE, rows |-> <<>>],
      save_dataframe(update_dataframe(create_new_dataframe,
                                      <<Payload(1, "29/09/2003", PadList(<<2, 3, 5>>))>>).df,
                     [exists |-> FALSE, rows |-> <<>>], "none").file }

\* line 175
ConcLoad(run) ==
    /\ run_pc[run] = "load"
    /\ LET loaded == read_or_create_dataframe(excel_file, "none")
       IN runs' = [runs EXCEPT
              !.df_create[run] = loaded.df,
              !.pc[run] = IF loaded.raised = "none" THEN "merge" ELSE "raised",
              !.log = Append(run_log, <<run, "load">>)]
    /\ UNCHANGED excel_file

\* line 176
ConcMerge(run) ==
    /\ run_pc[run] = "merge"
    /\ LET merged == update_dataframe(run_df_create[run], run_lottery_data[run])
       IN runs' = [runs EXCEPT
              !.df_update[run] = merged.df,
              !.pc[run] = IF merged.raised = "none" THEN "save" ELSE "raised"]
    /\ UNCHANGED excel_file

\* line 177
ConcSave(run) ==
    /\ run_pc[run] = "save"
    /\ excel_file' = save_dataframe(run_df_update[run], excel_file, "none").file
    /\ runs' = [runs EXCEPT !.pc[run] = "done",
                            !.log = Append(run_log, <<run, "save">>)]

ConcInit ==
    /\ storage = "excel"
    /\ excel_file \in ConcFiles
    /\ collection_lotofacil_results = <<>>
    /\ lottery_data = <<>>
    /\ df_create = <<>>
    /\ df_update = <<>>
    /\ outcome = Outcome("idle", "none", "none")
    /\ fault = NoFault
    /\ rerun = FALSE
    /\ first = First(FALSE, <<>>, <<>>)
    /\ store_before = <<>>
    /\ PredIdle /\ GenIdle /\ PoolIdle
    /\ OccIdle /\ FlagIdle /\ FeedIdle /\ FitIdle
    /\ \E batches \in [Runs -> ConcBatches] :
          runs = [lottery_data |-> batches,
                  df_create |-> [run \in Runs |-> <<>>],
                  df_update |-> [run \in Runs |-> <<>>],
                  pc |-> [run \in Runs |-> "load"],
                  log |-> <<>>]

ConcNext ==
    \/ \E run \in Runs : ConcLoad(run) /\ UNCHANGED <<storage, collection_lotofacil_results, lottery_data, df_create, df_update, outcome, fault, rerun, first, store_before, pred_vars, gen_vars, pool_vars, occurrences, predictions, request, training>>
    \/ \E run \in Runs : ConcMerge(run) /\ UNCHANGED <<storage, collection_lotofacil_results, lottery_data, df_create, df_update, outcome, fault, rerun, first, store_before, pred_vars, gen_vars, pool_vars, occurrences, predictions, request, training>>
    \/ \E run \in Runs : ConcSave(run) /\ UNCHANGED <<storage, collection_lotofacil_results, lottery_data, df_create, df_update, outcome, fault, rerun, first, store_before, pred_vars, gen_vars, pool_vars, occurrences, predictions, request, training>>

ConcSpec == ConcInit /\ [][ConcNext]_vars

-----------------------------------------------------------------------------
(* Properties of two runs at once *)

\* both runs loaded before either saved, and both have saved
BothLoadedThenSaved ==
    /\ Len(run_log) = 4
    /\ run_log[1][2] = "load" /\ run_log[2][2] = "load"
    /\ run_log[3][2] = "save" /\ run_log[4][2] = "save"

LaterWriter == run_log[4][1]
EarlierWriter == run_log[3][1]

\* the draws the earlier writer ingested that the later writer never saw
LostDraws ==
    DrawIds(run_lottery_data[EarlierWriter])
        \ (DrawIds(run_df_create[LaterWriter]) \cup DrawIds(run_lottery_data[LaterWriter]))

\* C16: when both runs load before either saves, the file holds after the
\* two saves the later writer's collection and nothing else: every draw the
\* other run ingested, and the later writer neither loaded nor received,
\* is missing from the file.
C16_LostUpdate ==
    BothLoadedThenSaved =>
        /\ [i \in 1..Len(excel_file.rows) |-> excel_file.rows[i].concurso]
              = [i \in 1..Len(run_df_update[LaterWriter]) |->
                    sort_values(run_df_update[LaterWriter])[i].concurso]
        /\ \A i \in 1..Len(excel_file.rows) :
              Numbers(excel_file.rows[i].dezenas)
                  = Numbers(sort_values(run_df_update[LaterWriter])[i].dezenas)
        /\ LostDraws \cap DrawIds(excel_file.rows) = {}

\* the file held draw 1, one run ingested draw 2500 and the other received
\* draw 1 with another date; the file holds draw 1 and lacks draw 2500
C16_Witness ==
    /\ BothLoadedThenSaved
    /\ DrawIds(run_df_create[EarlierWriter]) = {1}
    /\ DrawIds(run_df_create[LaterWriter]) = {1}
    /\ DrawIds(run_lottery_data[EarlierWriter]) = {2500}
    /\ DrawIds(run_lottery_data[LaterWriter]) = {1}
    /\ DrawIds(run_df_update[EarlierWriter]) = {1, 2500}
    /\ LostDraws = {2500}
    /\ DrawIds(excel_file.rows) = {1}

-----------------------------------------------------------------------------
(* mlp_model_operations.py: generate_numbers_mlp from the call of          *)
(* train_mlp_model on, for a history that gives training data.  The pool   *)
(* is built by the steps of generate_random_numbers.                       *)

\* what model.fit does: it returns, or raises the one error train_mlp_model
\* catches, or raises another (degenerate or too few samples: ValueError)
FitOutcomes == {"none", "ImportError", "ValueError"}

\* lines 68-73
train_mlp_model(fit_exc) ==
    IF fit_exc = "none" THEN [raised |-> "none", model |-> FitResult("none", TRUE, FALSE)]
    ELSE IF fit_exc = "ImportError"
    THEN [raised |-> "none", model |-> FitResult(fit_exc, FALSE, TRUE)]
    ELSE [raised |-> fit_exc, model |-> FitResult(fit_exc, FALSE, FALSE)]

\* line 140
TrainMlpModel ==
    /\ pc_fit = "train"
    /\ \E fit_exc \in FitOutcomes :
          LET trained == train_mlp_model(fit_exc)
          IN training' =
                IF trained.raised = "none"
                THEN [training EXCEPT !.fit_result = trained.model, !.pc = "query"]
                ELSE Training(trained.model, MlpResult("raised", trained.raised), "raised")
    /\ UNCHANGED pool_vars

\* lines 142 and 87-88: predict_proba of a model that was not fitted raises
\* NotFittedError
QueryModel ==
    /\ pc_fit = "query"
    /\ IF fit_result.fitted
       THEN /\ probabilities' \in ScoreInputs
            /\ pc_pool' = "rank"
            /\ training' = [training EXCEPT !.pc = "pool"]
       ELSE /\ training' = [training EXCEPT
                               !.mlp_result = MlpResult("raised", "NotFittedError"),
                               !.pc = "raised"]
            /\ UNCHANGED <<probabilities, pc_pool>>
    /\ UNCHANGED <<sorted_probabilities, unique_numbers>>

\* lines 146-151
MlpReturn ==
    /\ pc_fit = "pool"
    /\ pc_pool = "done"
    /\ training' = [training EXCEPT !.mlp_result = MlpResult("returned", "none"),
                                    !.pc = "done"]
    /\ UNCHANGED pool_vars

FitInit ==
    /\ storage = "excel"
    /\ StoreIdle /\ PredIdle /\ GenIdle /\ PoolIdle
    /\ OccIdle /\ FlagIdle /\ FeedIdle /\ ConcIdle
    /\ training = Training(FitResult("none", FALSE, FALSE), MlpResult("idle", "none"), "train")

FitNext ==
    \/ (TrainMlpModel /\ UNCHANGED <<store_vars, pred_vars, gen_vars, occurrences, predictions, request, runs>>)
    \/ (QueryModel /\ UNCHANGED <<store_vars, pred_vars, gen_vars, occurrences, predictions, request, runs>>)
    \/ (PoolRank /\ UNCHANGED <<store_vars, pred_vars, gen_vars, occurrences, predictions, request, runs, training>>)
    \/ (PoolPad /\ UNCHANGED <<store_vars, pred_vars, gen_vars, occurrences, predictions, request, runs, training>>)
    \/ (PoolReturn /\ UNCHANGED <<store_vars, pred_vars, gen_vars, occurrences, predictions, request, runs, training>>)
    \/ (MlpReturn /\ UNCHANGED <<store_vars, pred_vars, gen_vars, occurrences, predictions, request, runs>>)

FitSpec == FitInit /\ [][FitNext]_vars

-----------------------------------------------------------------------------
(* Properties of generate_numbers_mlp *)

\* C17: when model.fit fails, generate_numbers_mlp logs the failure, does
\* not raise and does not query the model that was not fitted; it goes on to
\* a pool of exactly 14 distinct numbers of 1..25 made by the padding alone.
C17_TrainingFallback ==
    (pc_fit \in {"query", "pool", "raised", "done"} /\ fit_result.exc # "none") =>
        /\ fit_result.logged
        /\ pc_fit # "raised" /\ mlp_result.status # "raised"
        /\ pc_fit = "done" =>
              /\ sorted_probabilities = <<>>
              /\ Len(unique_numbers) = 14 /\ IsSet(unique_numbers)
              /\ SeqRange(unique_numbers) \subseteq 1..25

====
